---------------------------- MODULE Spec2Model ----------------------------
(***************************************************************************)
(* A model of the notebook textract-hand-written-a2i-forms.ipynb: one run  *)
(* of its code cells, top to bottom, in a fresh kernel.  A cell that       *)
(* raises stops the run.  The managed services (Textract, S3, A2I,         *)
(* DynamoDB) are the environment.                                          *)
(*                                                                         *)
(* A text is a sequence of atoms.  An atom is one character that the code  *)
(* or a library inspects (space, comma, double quote, a digit, a dot) or a *)
(* word: a run of other characters, which nothing looks into.              *)
(***************************************************************************)
EXTENDS Integers, Sequences, FiniteSets, TLC

SPACE == " "
COMMA == ","
QUOTE == "\""
DigitChars == <<"0", "1", "2", "3", "4", "5", "6", "7", "8", "9">>
Digits == {DigitChars[i] : i \in 1..10}

Max(a, b) == IF a >= b THEN a ELSE b

\* ------------------------------------------------------------------------
\* Python values held in a dataframe cell, a dict or a variable.
\* ------------------------------------------------------------------------
StrV(s)   == [k |-> "str",   t |-> s,    n |-> 0]
IntV(i)   == [k |-> "int",   t |-> <<>>, n |-> i]
FloatV(i) == [k |-> "float", t |-> <<>>, n |-> i]
NaN       == [k |-> "nan",   t |-> <<>>, n |-> 0]
NoneV     == [k |-> "none",  t |-> <<>>, n |-> 0]

\* str(int): the decimal digits of a natural number.
RECURSIVE DecText(_)
DecText(i) ==
    IF i < 10 THEN <<DigitChars[i + 1]>>
    ELSE DecText(i \div 10) \o <<DigitChars[(i % 10) + 1]>>

\* Python's str() of a value.
PyStr(val) ==
    CASE val.k = "str"   -> val.t
      [] val.k = "int"   -> DecText(val.n)
      [] val.k = "float" -> DecText(val.n) \o <<".", "0">>
      [] val.k = "nan"   -> <<"nan">>
      [] val.k = "none"  -> <<"None">>

\* str.rstrip(): trailing whitespace removed.
RECURSIVE rstrip(_)
rstrip(s) ==
    IF s = <<>> THEN s
    ELSE IF s[Len(s)] = SPACE THEN rstrip(SubSeq(s, 1, Len(s) - 1))
    ELSE s

RECURSIVE lstrip(_)
lstrip(s) ==
    IF s = <<>> THEN s
    ELSE IF s[1] = SPACE THEN lstrip(Tail(s))
    ELSE s

\* ------------------------------------------------------------------------
\* csv.writer with delimiter ',' and QUOTE_MINIMAL (the default quoting).
\* A file is the sequence of its lines, a line the sequence of its atoms.
\* ------------------------------------------------------------------------
NeedsQuote(f) == \E i \in 1..Len(f) : f[i] \in {COMMA, QUOTE, "\n", "\r"}

RECURSIVE DoubleQuotes(_)
DoubleQuotes(f) ==
    IF f = <<>> THEN <<>>
    ELSE (IF f[1] = QUOTE THEN <<QUOTE, QUOTE>> ELSE <<f[1]>>)
         \o DoubleQuotes(Tail(f))

WriteField(f) ==
    IF NeedsQuote(f) THEN <<QUOTE>> \o DoubleQuotes(f) \o <<QUOTE>> ELSE f

RECURSIVE JoinFields(_)
JoinFields(fs) ==
    IF fs = <<>> THEN <<>>
    ELSE IF Len(fs) = 1 THEN WriteField(fs[1])
    ELSE WriteField(fs[1]) \o <<COMMA>> \o JoinFields(Tail(fs))

\* writerow: a row whose only field is empty is written as "".
writerow(fs) ==
    IF fs = <<<<>>>> THEN <<QUOTE, QUOTE>> ELSE JoinFields(fs)

\* ------------------------------------------------------------------------
\* pandas.read_csv (C parser, sep=',', QUOTE_MINIMAL, default NA values,
\* skip_blank_lines, type inference per column).
\* ------------------------------------------------------------------------
\* The tokenizer on one line: st is START_FIELD ("start"), IN_FIELD
\* ("field"), IN_QUOTED_FIELD ("quoted") or QUOTE_IN_QUOTED_FIELD ("qq").
RECURSIVE Tokenize(_, _, _, _)
Tokenize(line, st, cur, done) ==
    IF line = <<>> THEN Append(done, cur)
    ELSE LET c == line[1]
             rest == Tail(line)
         IN  CASE st = "start" ->
                    IF c = QUOTE THEN Tokenize(rest, "quoted", cur, done)
                    ELSE IF c = COMMA
                         THEN Tokenize(rest, "start", <<>>, Append(done, cur))
                    ELSE Tokenize(rest, "field", Append(cur, c), done)
               [] st = "field" ->
                    IF c = COMMA
                    THEN Tokenize(rest, "start", <<>>, Append(done, cur))
                    ELSE Tokenize(rest, "field", Append(cur, c), done)
               [] st = "quoted" ->
                    IF c = QUOTE THEN Tokenize(rest, "qq", cur, done)
                    ELSE Tokenize(rest, "quoted", Append(cur, c), done)
               [] st = "qq" ->
                    IF c = QUOTE
                    THEN Tokenize(rest, "quoted", Append(cur, c), done)
                    ELSE IF c = COMMA
                         THEN Tokenize(rest, "start", <<>>, Append(done, cur))
                    ELSE Tokenize(rest, "field", Append(cur, c), done)

ParseLine(line) == Tokenize(line, "start", <<>>, <<>>)

\* skip_blank_lines: an empty or whitespace-only line is no record.
IsBlankLine(line) == \A i \in 1..Len(line) : line[i] = SPACE

RECURSIVE Records(_)
Records(lines) ==
    IF lines = <<>> THEN <<>>
    ELSE IF IsBlankLine(lines[1]) THEN Records(Tail(lines))
    ELSE <<ParseLine(lines[1])>> \o Records(Tail(lines))

\* The default na_values that the atoms can spell.
NaTexts == {<<>>, <<"NA">>, <<"N/A">>, <<"NULL">>, <<"NaN">>, <<"nan">>,
            <<"null">>, <<"n/a">>}

IsNa(s) == s \in NaTexts

\* An integer literal: digits, with blanks around them skipped.
IsIntText(s) ==
    LET d == rstrip(lstrip(s))
    IN  d # <<>> /\ \A i \in 1..Len(d) : d[i] \in Digits

DigitVal(c) == CHOOSE d \in 0..9 : DigitChars[d + 1] = c

RECURSIVE DigitsVal(_)
DigitsVal(d) ==
    IF d = <<>> THEN 0
    ELSE 10 * DigitsVal(SubSeq(d, 1, Len(d) - 1)) + DigitVal(d[Len(d)])

ParseInt(s) == DigitsVal(rstrip(lstrip(s)))

\* One column of texts converted as the parser's type inference does: all
\* integers gives int64, integers and NA gives float64, otherwise object.
ConvertColumn(texts) ==
    LET idx     == 1..Len(texts)
        allNa   == \A i \in idx : IsNa(texts[i])
        ints    == \A i \in idx : IsNa(texts[i]) \/ IsIntText(texts[i])
        someNa  == \E i \in idx : IsNa(texts[i])
    IN  [i \in idx |->
            IF IsNa(texts[i]) THEN NaN
            ELSE IF ints /\ ~allNa
                 THEN (IF someNa THEN FloatV(ParseInt(texts[i]))
                       ELSE IntV(ParseInt(texts[i])))
            ELSE StrV(texts[i])]

\* ------------------------------------------------------------------------
\* A pandas DataFrame: the row labels, the column names and the rows, each
\* row one value per column.
\* ------------------------------------------------------------------------
DataFrame(idx, cols, rws) == [index |-> idx, columns |-> cols, rows |-> rws]

\* len(df)
DfLen(df) == Len(df.rows)

\* RangeIndex(n): the labels 0 .. n-1.
RangeIndex(n) == [i \in 1..n |-> IntV(i - 1)]

\* The position of the first column called name, 0 when there is none.
ColPos(df, name) ==
    IF \E c \in 1..Len(df.columns) : df.columns[c] = name
    THEN CHOOSE c \in 1..Len(df.columns) :
            /\ df.columns[c] = name
            /\ \A d \in 1..(c - 1) : df.columns[d] # name
    ELSE 0

HasCol(df, name) == ColPos(df, name) # 0

\* df[name].to_list()
ColumnList(df, name) == [i \in 1..DfLen(df) |-> df.rows[i][ColPos(df, name)]]

\* A record of fewer fields than the table is wide is filled with empty
\* fields (which read as NaN).
PadTo(rec, w) == [c \in 1..w |-> IF c <= Len(rec) THEN rec[c] ELSE <<>>]

\* pd.read_csv(lines, header=0 or header=None).  The result is
\* [ok |-> FALSE, err |-> the exception] or [ok |-> TRUE, df |-> the frame].
\* The table is as wide as the wider of the header and the first data
\* record; the columns the first data record has beyond the header become
\* the row labels (the implicit index); a later record wider than the table
\* is a ParserError.
read_csv(lines, hasHeader) ==
    LET recs  == Records(lines)
        names == IF hasHeader THEN recs[1] ELSE <<>>
        data  == IF hasHeader THEN Tail(recs) ELSE recs
        nhdr  == IF hasHeader THEN Len(names) ELSE Len(data[1])
        w     == IF data = <<>> THEN nhdr ELSE Max(nhdr, Len(data[1]))
        lead  == w - nhdr
        n     == Len(data)
        padded == [i \in 1..n |-> PadTo(data[i], w)]
        col(c) == ConvertColumn([i \in 1..n |-> padded[i][c]])
        cols  == IF hasHeader THEN names
                 ELSE [c \in 1..w |-> DecText(c - 1)]
        index == IF lead = 0 THEN RangeIndex(n)
                 ELSE IF lead = 1 THEN col(1)
                 ELSE [i \in 1..n |->
                          [k |-> "tuple", t |-> SubSeq(data[i], 1, lead), n |-> 0]]
    IN  IF recs = <<>> THEN [ok |-> FALSE, err |-> "EmptyDataError"]
        ELSE IF \E i \in 2..n : Len(data[i]) > w
        THEN [ok |-> FALSE, err |-> "ParserError"]
        ELSE [ok |-> TRUE,
              df |-> DataFrame(index, cols,
                        [i \in 1..n |-> [c \in 1..nhdr |-> col(lead + c)[i]]])]

\* df.rename(columns={df.columns[0]: new})
RenameFirstColumn(df, new) ==
    [df EXCEPT !.columns = [c \in 1..Len(df.columns) |->
                               IF df.columns[c] = df.columns[1] THEN new
                               ELSE df.columns[c]]]

\* df.at[label, name] = val.  A missing column is added (NaN elsewhere); a
\* missing label is added as a new last row (setting with enlargement);
\* every row carrying the label is set.
IntColumn(rws, c) == rws # <<>> /\ \A i \in 1..Len(rws) : rws[i][c].k = "int"

\* An int64 column that comes to hold a NaN becomes float64.
Upcast(rws, w) ==
    [i \in 1..Len(rws) |->
        [c \in 1..w |-> IF IntColumn(rws, c) THEN FloatV(rws[i][c].n)
                        ELSE rws[i][c]]]

AtSet(df, label, name, val) ==
    LET withCol == IF HasCol(df, name) THEN df
                   ELSE [df EXCEPT !.columns = Append(@, name),
                                   !.rows = [i \in 1..Len(@) |-> Append(@[i], NaN)]]
        w       == Len(withCol.columns)
        known   == \E i \in 1..Len(withCol.index) : withCol.index[i] = label
        withRow == IF known THEN withCol
                   ELSE [withCol EXCEPT
                            !.index = Append(@, label),
                            !.rows = Append(Upcast(@, w), [c \in 1..w |-> NaN])]
        c == ColPos(withRow, name)
    IN  [withRow EXCEPT !.rows =
            [i \in 1..Len(@) |->
                IF withRow.index[i] = label THEN [@[i] EXCEPT ![c] = val]
                ELSE @[i]]]

\* df.where(df.notnull(), None): every NaN becomes None.
WhereNotNull(df) ==
    [df EXCEPT !.rows =
        [i \in 1..Len(@) |->
            [c \in 1..Len(@[i]) |-> IF @[i][c] = NaN THEN NoneV ELSE @[i][c]]]]

\* ------------------------------------------------------------------------
\* The analysis responses the runs are checked on.  A response is what
\* trp's Document gives: pages, each with its tables (rows of cell texts)
\* and its form fields (a key text and a value, None when the value block
\* is empty).  trp builds a cell's text as each word followed by a space.
\* ------------------------------------------------------------------------
MaxRows   == 2      \* data rows of a table
MaxFields == 2      \* form fields of a page

Cell(s) == s \o <<SPACE>>
Field(key, value) == [key |-> key, value |-> value]
Page(tables, fields) == [tables |-> tables, fields |-> fields]

\* Column names that the notebook reads by name.
StartDate  == <<"Start", SPACE, "Date">>
EndDate    == <<"End", SPACE, "Date">>
EmpName    == <<"Employer", SPACE, "Name">>
PosHeld    == <<"Position", SPACE, "Held">>
ResLeave   == <<"Reason", SPACE, "for", SPACE, "leaving">>
FormHeader == <<"FormHeader">>

HdrFull  == <<Cell(StartDate), Cell(EndDate), Cell(EmpName), Cell(PosHeld),
              Cell(ResLeave)>>
\* a table whose first column has no heading
HdrLead  == <<<<>>>> \o HdrFull
\* a table without the last column
HdrShort == SubSeq(HdrFull, 1, 4)

RowPlain  == <<Cell(<<"Jan">>), Cell(<<"Dec">>), Cell(<<"Acme">>),
               Cell(<<"Clerk">>), Cell(<<"moved">>)>>
RowGap    == <<Cell(<<"Feb">>), <<>>, Cell(<<"Global", SPACE, "Inc">>),
               Cell(<<"Manager">>), Cell(<<"NA">>)>>
RowDigits == <<Cell(<<"2", "0", "1", "9">>), Cell(<<"0", "7">>),
               Cell(<<"Acme", COMMA, SPACE, "Inc">>),
               Cell(<<QUOTE, "Boss", QUOTE>>), Cell(<<"quit">>)>>
RowBlank  == <<<<>>, <<>>, <<>>, <<>>, <<>>>>
RowLead(d) == <<Cell(d)>> \o RowPlain

\* The data rows of a table are the first rows of one of these lists.
RowLists ==
    { <<RowPlain, RowGap, RowDigits, RowPlain>>,
      <<RowDigits, RowDigits, RowGap, RowPlain>>,
      <<RowGap, RowBlank, RowPlain, RowDigits>>,
      <<RowBlank, RowDigits, RowPlain, RowGap>> }
LeadRowLists ==
    { <<RowLead(<<"1">>), RowLead(<<"2">>), RowLead(<<"3">>), RowLead(<<"4">>)>>,
      <<RowLead(<<"7">>), RowLead(<<"7">>), RowLead(<<"9">>), RowLead(<<"9">>)>> }

Prefixes(list, m) == {SubSeq(list, 1, i) : i \in 0..m}

\* A table is a grid: every row has as many cells as the heading row.
Narrow(rws, w) == [i \in 1..Len(rws) |-> SubSeq(rws[i], 1, w)]

Tables ==
    {<<h>> \o Narrow(rws, Len(h)) :
        h \in {HdrFull, HdrShort, RowBlank},
        rws \in UNION {Prefixes(l, MaxRows) : l \in RowLists}}
    \cup {<<HdrLead>> \o rws :
             rws \in UNION {Prefixes(l, MaxRows) : l \in LeadRowLists}}

TableStd == <<HdrFull, RowPlain>>

FieldLists ==
    { <<Field(<<"Name">>, StrV(<<"John">>)), Field(<<"Date">>, NoneV),
        Field(<<"City">>, StrV(<<"Berne", COMMA, SPACE, "CH">>))>>,
      <<Field(<<"Nick">>, StrV(<<QUOTE, "Al", QUOTE>>)),
        Field(<<"Zip">>, StrV(<<"0", "7">>)),
        Field(<<"Name">>, StrV(<<"John">>))>>,
      <<Field(<<"4", "2">>, NoneV), Field(<<"Name">>, StrV(<<"John">>)),
        Field(<<"Date">>, NoneV)>> }

FieldSeqs == UNION {Prefixes(l, MaxFields) : l \in FieldLists}

FieldsStd == <<Field(<<"Name">>, StrV(<<"John">>))>>

Analyses ==
    \* one page: the fields vary
    {<<Page(<<TableStd>>, fs)>> : fs \in FieldSeqs}
    \* one page: the table varies
    \cup {<<Page(<<t>>, FieldsStd)>> : t \in Tables}
    \* one page: no table, two tables
    \cup {<<Page(<<>>, FieldsStd)>>,
          <<Page(<<<<HdrFull, RowDigits>>, TableStd>>, FieldsStd)>>}
    \* one page: a line item of numbers, and more fields than line items
    \cup {<<Page(<<<<HdrFull, RowDigits>>>>, SubSeq(l, 1, MaxFields))>> :
             l \in FieldLists}
    \* two pages
    \cup {<<Page(<<TableStd>>, FieldsStd), Page(ts, fs)>> :
             ts \in {<<>>, <<<<HdrFull, RowGap>>>>},
             fs \in {<<>>, <<Field(<<"Date">>, NoneV)>>}}

\* ------------------------------------------------------------------------
\* The correction answers a reviewer may submit for a task with h form
\* lines and n line items.  The template names the inputs of row i
\* TrueHdr<i>, Comments<i>, TrueStartDate<i>, ...; an answerContent maps
\* input names to the texts typed.  Every value names its own key, so a
\* value on the wrong row shows.
\* ------------------------------------------------------------------------
HdrInputs  == {<<"TrueHdr">>, <<"Comments">>}
ItemInputs == {<<"TrueStartDate">>, <<"TrueEndDate">>, <<"TrueEmpName">>,
               <<"TruePosHeld">>, <<"TrueResLeave">>,
               <<"Change", SPACE, "Reason">>}

AnswerKey(name, i) == name \o DecText(i)

\* {% for pair in list %} ... name="<input>{{ forloop.index }}" ...
\* {% endfor %}: one block per entry of the list, the i-th block (i from
\* 1) holding the inputs named <input><i>.
RenderBlocks(list, inputs) ==
    [i \in 1..Len(list) |-> {name \o DecText(i) : name \in inputs}]

\* The correction inputs of the worker UI rendered for a task input.
Rendered(input) ==
    [Header |-> RenderBlocks(input.Header, HdrInputs),
     Pairs  |-> RenderBlocks(input.Pairs, ItemInputs)]

\* Inputs of the rows shown, and of one row more than was shown.
AnswerKeys(h, n) ==
    {AnswerKey(f, i) : f \in HdrInputs, i \in 1..(h + 1)}
    \cup {AnswerKey(f, i) : f \in ItemInputs, i \in 1..(n + 1)}

Answer(who, keys) == [key \in keys |-> <<who>> \o key]

AnswerContents(h, n) ==
    {Answer("A", AnswerKeys(h, n))}
    \cup {Answer("A", AnswerKeys(h, n) \ {key}) : key \in AnswerKeys(h, n)}
    \cup {Answer("A", {})}

\* The output object of a completed human loop: its humanAnswers list.
Outputs(h, n) ==
    {<<>>}
    \cup {<<a>> : a \in AnswerContents(h, n)}
    \cup {<<Answer("B", AnswerKeys(h, n)), a>> : a \in AnswerContents(h, n)}

\* ------------------------------------------------------------------------
\* The state of a run.  A Python variable is <<>> while unbound and <<v>>
\* once bound to v; a file likewise.
\* ------------------------------------------------------------------------
VARIABLES
    pc,          \* the cell the run is about to execute
    err,         \* the exception that stopped the run, "" if none
    errCell,     \* the cell that raised it
    analysis,    \* what Textract answers for the document
    response,    \* response
    page,        \* page, the loop variable of the traversal cell
    table,       \* table, the loop variable of the traversal cell
    form_csv,    \* test_handwritten_form.csv
    tab_csv,     \* test_handwritten_tab.csv
    df_form,     \* df_form
    df_tab,      \* df_tab
    df_doc,      \* df_doc
    flowStatus,  \* the flow definition's status at the service
    x,           \* x: the activation loop's variable, later the answer
    sawActive,   \* a describe_flow_definition of this run returned Active
    item_list,   \* item_list
    hdr_list,    \* hdr_list
    ip_content,  \* ip_content
    startCalls,  \* start_human_loop calls made
    taskInput,   \* the InputContent of the human loop the service started
    hlStatus,    \* the human loop's status at the service
    resp,        \* resp: the last describe_human_loop response
    hlQueries,   \* describe_human_loop calls made
    completed_human_loops,
    json_output, \* json_output
    tablename,   \* tablename
    account,     \* the DynamoDB tables of the account: name -> (line_nr -> item)
    run,         \* "first", or "second" when the notebook is run again
    earlier,     \* the table the first run left, as it was when that run ended
    puts,        \* the line_nr of every put_item made, in order
    putPos       \* rows of df_doc the put_item loop has passed

ctl      == <<pc, err, errCell>>
docVars  == <<analysis, response, page, table, form_csv, tab_csv>>
frames   == <<df_form, df_tab, df_doc>>
flowVars == <<flowStatus, x, sawActive>>
taskVars == <<item_list, hdr_list, ip_content, startCalls, taskInput>>
loopVars == <<hlStatus, resp, hlQueries, completed_human_loops, json_output>>
dbVars   == <<tablename, account, run, earlier, puts, putPos>>

vars == <<ctl, docVars, frames, flowVars, taskVars, loopVars, dbVars>>

Unbound == <<>>
Bound(v) == <<v>>
IsBound(var) == var # <<>>
ValueOf(var) == var[1]

\* The cell at pc raises e: the run stops there.
Raise(e) == /\ pc' = "aborted"
            /\ err' = e
            /\ errCell' = pc

Goto(next) == /\ pc' = next
              /\ UNCHANGED <<err, errCell>>

\* an account without tables
NoTables == [name \in {} |-> <<>>]

Init ==
    /\ pc = "analyze_document"
    /\ err = ""
    /\ errCell = ""
    /\ analysis \in Analyses
    /\ response = Unbound
    /\ page = Unbound
    /\ table = Unbound
    /\ form_csv = Unbound
    /\ tab_csv = Unbound
    /\ df_form = Unbound
    /\ df_tab = Unbound
    /\ df_doc = Unbound
    /\ flowStatus = "None"
    /\ x = Unbound
    /\ sawActive = FALSE
    /\ item_list = Unbound
    /\ hdr_list = Unbound
    /\ ip_content = Unbound
    /\ startCalls = 0
    /\ taskInput = Unbound
    /\ hlStatus = "None"
    /\ resp = Unbound
    /\ hlQueries = 0
    /\ completed_human_loops = Unbound
    /\ json_output = Unbound
    /\ tablename = Unbound
    /\ account = NoTables
    /\ run = "first"
    /\ earlier = Unbound
    /\ puts = <<>>
    /\ putPos = 0

\* ------------------------------------------------------------------------
\* Step 1: analysis and projection.
\* ------------------------------------------------------------------------
\* response = client.analyze_document(...)
AnalyzeDocument ==
    /\ pc = "analyze_document"
    /\ response' = Bound([op |-> "analyze_document", pages |-> analysis])
    /\ Goto("traverse")
    /\ UNCHANGED <<analysis, page, table, form_csv, tab_csv>>
    /\ UNCHANGED <<frames, flowVars, taskVars, loopVars, dbVars>>

\* The value a for loop leaves in its variable: the last element, and the
\* variable as it was when the sequence is empty.
LoopVar(before, seq) == IF seq = <<>> THEN before ELSE Bound(seq[Len(seq)])

\* LastTable stopping at the first table met
RECURSIVE FirstTable(_, _)
FirstTable(before, pages) ==
    IF pages = <<>> THEN before
    ELSE IF pages[1].tables # <<>> THEN Bound(pages[1].tables[1])
    ELSE FirstTable(before, Tail(pages))

\* table after "for page in doc.pages: for table in page.tables".
RECURSIVE LastTable(_, _)
LastTable(before, pages) ==
    IF pages = <<>> THEN before
    ELSE LastTable(LoopVar(before, pages[1].tables), Tail(pages))

\* doc = Document(response); for page in doc.pages: ... for table in
\* page.tables: ... for field in page.form.fields: ...
Traverse ==
    /\ pc = "traverse"
    /\ page' = LoopVar(page, ValueOf(response).pages)
    /\ table' = LastTable(table, ValueOf(response).pages)
    /\ Goto("write_form_csv")
    /\ UNCHANGED <<analysis, response, form_csv, tab_csv>>
    /\ UNCHANGED <<frames, flowVars, taskVars, loopVars, dbVars>>

\* FormRow without the separating space
FormRowNoSpace(field) ==
    <<PyStr(StrV(field.key)) \o PyStr(field.value)>>

\* [str(field.key) + " " + str(field.value)]
FormRow(field) ==
    <<PyStr(StrV(field.key)) \o <<SPACE>> \o PyStr(field.value)>>

\* The form csv cell: one row per field of page.
FormLines(fields) == [i \in 1..Len(fields) |-> writerow(FormRow(fields[i]))]

WriteFormCsv ==
    /\ pc = "write_form_csv"
    /\ IF IsBound(page)
       THEN /\ form_csv' = Bound(FormLines(ValueOf(page).fields))
            /\ Goto("write_tab_csv")
       ELSE /\ form_csv' = Bound(<<>>)
            /\ Raise("NameError")
    /\ UNCHANGED <<analysis, response, page, table, tab_csv>>
    /\ UNCHANGED <<frames, flowVars, taskVars, loopVars, dbVars>>

\* CsvRow without the test on cell.text: an empty cell gives an empty field
CsvRowAllCells(cells) == [i \in 1..Len(cells) |-> rstrip(cells[i])]

\* csvrow: the non-empty cell texts of a row, each rstrip()ped.
RECURSIVE CsvRow(_)
CsvRow(cells) ==
    IF cells = <<>> THEN <<>>
    ELSE (IF cells[1] # <<>> THEN <<rstrip(cells[1])>> ELSE <<>>)
         \o CsvRow(Tail(cells))

TabLines(rws) == [i \in 1..Len(rws) |-> writerow(CsvRow(rws[i]))]

\* The table csv cell: one row per row of table.  The file is opened
\* before table is read, so it exists, empty, when table is unbound.
WriteTabCsv ==
    /\ pc = "write_tab_csv"
    /\ IF IsBound(table)
       THEN /\ tab_csv' = Bound(TabLines(ValueOf(table)))
            /\ Goto("upload_image")
       ELSE /\ tab_csv' = Bound(<<>>)
            /\ Raise("NameError")
    /\ UNCHANGED <<analysis, response, page, table, form_csv>>
    /\ UNCHANGED <<frames, flowVars, taskVars, loopVars, dbVars>>

\* s3_img_url = S3Uploader.upload(...)
UploadImage ==
    /\ pc = "upload_image"
    /\ Goto("load_form")
    /\ UNCHANGED <<docVars, frames, flowVars, taskVars, loopVars, dbVars>>

\* df_form = pd.read_csv(form csv, header=None); rename column 0.
LoadForm ==
    /\ pc = "load_form"
    /\ LET r == read_csv(ValueOf(form_csv), FALSE)
       IN  IF r.ok
           THEN /\ df_form' = Bound(RenameFirstColumn(r.df, FormHeader))
                /\ Goto("load_tab")
           ELSE /\ df_form' = df_form
                /\ Raise(r.err)
    /\ UNCHANGED <<df_tab, df_doc>>
    /\ UNCHANGED <<docVars, flowVars, taskVars, loopVars, dbVars>>

\* df_tab = pd.read_csv(table csv, header=0)
LoadTab ==
    /\ pc = "load_tab"
    /\ LET r == read_csv(ValueOf(tab_csv), TRUE)
       IN  IF r.ok
           THEN /\ df_tab' = Bound(r.df)
                /\ Goto("create_task_ui")
           ELSE /\ df_tab' = df_tab
                /\ Raise(r.err)
    /\ UNCHANGED <<df_form, df_doc>>
    /\ UNCHANGED <<docVars, flowVars, taskVars, loopVars, dbVars>>

\* ------------------------------------------------------------------------
\* Step 3: the task UI, the flow definition and the wait for it.
\* ------------------------------------------------------------------------
\* range(60) of the activation loop
FlowAttempts == 60

\* humanTaskUiResponse = create_task_ui()
CreateTaskUi ==
    /\ pc = "create_task_ui"
    /\ Goto("create_flow_definition")
    /\ UNCHANGED <<docVars, frames, flowVars, taskVars, loopVars, dbVars>>

\* sagemaker_client.create_flow_definition(...)
CreateFlowDefinition ==
    /\ pc = "create_flow_definition"
    /\ flowStatus' = "Initializing"
    /\ Goto("flow_wait")
    /\ UNCHANGED <<x, sawActive>>
    /\ UNCHANGED <<docVars, frames, taskVars, loopVars, dbVars>>

\* The service finishes setting the flow definition up, or fails to.
FlowDefinitionSettles ==
    /\ pc \notin {"aborted", "done"}
    /\ flowStatus = "Initializing"
    /\ flowStatus' \in {"Active", "Failed"}
    /\ UNCHANGED <<x, sawActive>>
    /\ UNCHANGED <<ctl, docVars, frames, taskVars, loopVars, dbVars>>

\* for x in range(60): the first iteration binds x to 0.
EnterFlowWait ==
    /\ pc = "flow_wait"
    /\ x' = Bound(IntV(0))
    /\ Goto("flow_describe")
    /\ UNCHANGED <<flowStatus, sawActive>>
    /\ UNCHANGED <<docVars, frames, taskVars, loopVars, dbVars>>

\* FlowDescribe without the break: the loop sleeps and goes on after Active
FlowDescribeNoBreak ==
    /\ pc = "flow_describe"
    /\ sawActive' = (sawActive \/ flowStatus = "Active")
    /\ Goto("flow_sleep")
    /\ UNCHANGED <<flowStatus, x>>
    /\ UNCHANGED <<docVars, frames, taskVars, loopVars, dbVars>>

\* describe_flow_definition; if the status is Active: break.
FlowDescribe ==
    /\ pc = "flow_describe"
    /\ IF flowStatus = "Active"
       THEN /\ sawActive' = TRUE
            /\ Goto("build_item_list")
       ELSE /\ sawActive' = sawActive
            /\ Goto("flow_sleep")
    /\ UNCHANGED <<flowStatus, x>>
    /\ UNCHANGED <<docVars, frames, taskVars, loopVars, dbVars>>

\* time.sleep(2), then the next iteration; after the last one the loop
\* ends and the run goes on with the next cell.
FlowSleep ==
    /\ pc = "flow_sleep"
    /\ IF ValueOf(x).n + 1 < FlowAttempts
       THEN /\ x' = Bound(IntV(ValueOf(x).n + 1))
            /\ Goto("flow_describe")
       ELSE /\ x' = x
            /\ Goto("build_item_list")
    /\ UNCHANGED <<flowStatus, sawActive>>
    /\ UNCHANGED <<docVars, frames, taskVars, loopVars, dbVars>>

\* ------------------------------------------------------------------------
\* Sending the task to the human loop.
\* ------------------------------------------------------------------------
ItemColumns == <<StartDate, EndDate, EmpName, PosHeld, ResLeave>>

MissingColumns(df) ==
    {c \in 1..Len(ItemColumns) : ~HasCol(df, ItemColumns[c])}

\* ItemList with dfstart[0], dfend[0], ... in every entry
ItemListFirstRow(df) ==
    [i \in 1..DfLen(df) |->
        [row       |-> DecText(i - 1),
         startdate |-> ColumnList(df, StartDate)[1],
         enddate   |-> ColumnList(df, EndDate)[1],
         empname   |-> ColumnList(df, EmpName)[1],
         posheld   |-> ColumnList(df, PosHeld)[1],
         resleave  |-> ColumnList(df, ResLeave)[1]]]

\* NUM_TO_REVIEW = len(df_tab); dfstart = df_tab['Start Date'].to_list();
\* ...; item_list = [{'row': str(x), 'startdate': dfstart[x], ...}]
ItemList(df) ==
    [i \in 1..DfLen(df) |->
        [row       |-> DecText(i - 1),
         startdate |-> ColumnList(df, StartDate)[i],
         enddate   |-> ColumnList(df, EndDate)[i],
         empname   |-> ColumnList(df, EmpName)[i],
         posheld   |-> ColumnList(df, PosHeld)[i],
         resleave  |-> ColumnList(df, ResLeave)[i]]]

BuildItemList ==
    /\ pc = "build_item_list"
    /\ IF MissingColumns(ValueOf(df_tab)) = {}
       THEN /\ item_list' = Bound(ItemList(ValueOf(df_tab)))
            /\ Goto("build_hdr_list")
       ELSE /\ item_list' = item_list
            /\ Raise("KeyError")
    /\ UNCHANGED <<hdr_list, ip_content, startCalls, taskInput>>
    /\ UNCHANGED <<docVars, frames, flowVars, loopVars, dbVars>>

\* hdr_list = [{'hdrrow': str(x), 'orighdr': dforighdr[x]} ...]
HdrList(df) ==
    [i \in 1..DfLen(df) |->
        [hdrrow  |-> DecText(i - 1),
         orighdr |-> ColumnList(df, FormHeader)[i]]]

BuildHdrList ==
    /\ pc = "build_hdr_list"
    /\ hdr_list' = Bound(HdrList(ValueOf(df_form)))
    /\ Goto("build_ip_content")
    /\ UNCHANGED <<item_list, ip_content, startCalls, taskInput>>
    /\ UNCHANGED <<docVars, frames, flowVars, loopVars, dbVars>>

\* ip_content = {"Header": hdr_list, 'Pairs': item_list, 'image1': url}
BuildIpContent ==
    /\ pc = "build_ip_content"
    /\ ip_content' = Bound([Header |-> ValueOf(hdr_list),
                            Pairs  |-> ValueOf(item_list),
                            image1 |-> "s3_img_url"])
    /\ Goto("start_human_loop")
    /\ UNCHANGED <<item_list, hdr_list, startCalls, taskInput>>
    /\ UNCHANGED <<docVars, frames, flowVars, loopVars, dbVars>>

\* a2i.start_human_loop(...).  The service starts a loop only for an
\* Active flow definition and rejects the call otherwise.
StartHumanLoop ==
    /\ pc = "start_human_loop"
    /\ startCalls' = startCalls + 1
    /\ IF flowStatus = "Active"
       THEN /\ taskInput' = Bound(ValueOf(ip_content))
            /\ hlStatus' = "InProgress"
            /\ Goto("check_status_1")
       ELSE /\ taskInput' = taskInput
            /\ hlStatus' = hlStatus
            /\ Raise("ClientError")
    /\ UNCHANGED <<item_list, hdr_list, ip_content>>
    /\ UNCHANGED <<resp, hlQueries, completed_human_loops, json_output>>
    /\ UNCHANGED <<docVars, frames, flowVars, dbVars>>

\* The reviewer submits the task, or the loop is stopped or fails.
HumanLoopEnds ==
    /\ pc \notin {"aborted", "done"}
    /\ hlStatus = "InProgress"
    /\ hlStatus' \in {"Completed", "Stopped", "Failed"}
    /\ UNCHANGED <<resp, hlQueries, completed_human_loops, json_output>>
    /\ UNCHANGED <<ctl, docVars, frames, flowVars, taskVars, dbVars>>

\* describe_human_loop is called in two cells, once each
StatusQueries == 2

\* the cells that call time.sleep
SleepCells == {"flow_sleep"}

\* CheckStatus without the test of the status: resp is always appended
CheckStatusAnyStatus(next) ==
    LET r == [HumanLoopStatus |-> hlStatus]
    IN  /\ resp' = Bound(r)
        /\ hlQueries' = hlQueries + 1
        /\ completed_human_loops' = Bound(<<r>>)
        /\ Goto(next)
        /\ UNCHANGED <<hlStatus, json_output>>
        /\ UNCHANGED <<docVars, frames, flowVars, taskVars, dbVars>>

\* completed_human_loops = []; resp = a2i.describe_human_loop(...);
\* if resp["HumanLoopStatus"] == "Completed": append resp.
CheckStatus(next) ==
    LET r == [HumanLoopStatus |-> hlStatus]
    IN  /\ resp' = Bound(r)
        /\ hlQueries' = hlQueries + 1
        /\ completed_human_loops' =
              Bound(IF hlStatus = "Completed" THEN <<r>> ELSE <<>>)
        /\ Goto(next)
        /\ UNCHANGED <<hlStatus, json_output>>
        /\ UNCHANGED <<docVars, frames, flowVars, taskVars, dbVars>>

CheckStatus1 ==
    /\ pc = "check_status_1"
    /\ CheckStatus("workteam_portal")

\* sagemaker_client.describe_workteam(...): the portal's address
WorkteamPortal ==
    /\ pc = "workteam_portal"
    /\ Goto("check_status_2")
    /\ UNCHANGED <<docVars, frames, flowVars, taskVars, loopVars, dbVars>>

CheckStatus2 ==
    /\ pc = "check_status_2"
    /\ CheckStatus("fetch_output")

\* for resp in completed_human_loops: response = s3.get_object(...);
\* json_output = json.loads(content)
FetchOutput ==
    /\ pc = "fetch_output"
    /\ IF ValueOf(completed_human_loops) = <<>>
       THEN UNCHANGED <<response, json_output>>
       ELSE \E out \in Outputs(Len(ValueOf(taskInput).Header),
                               Len(ValueOf(taskInput).Pairs)) :
               /\ json_output' = Bound([humanAnswers |-> out])
               /\ response' = Bound([op |-> "get_object", pages |-> <<>>])
    /\ Goto("merge_form")
    /\ UNCHANGED <<analysis, page, table, form_csv, tab_csv>>
    /\ UNCHANGED <<hlStatus, resp, hlQueries, completed_human_loops>>
    /\ UNCHANGED <<frames, flowVars, taskVars, dbVars>>

\* ------------------------------------------------------------------------
\* Step 4: merging the answers into the frames.
\* ------------------------------------------------------------------------
\* Lookup with the 0-based j as the suffix of the key
LookupZeroBased(answer, name, j) ==
    LET key == AnswerKey(name, j)
    IN  StrV(PyStr(IF key \in DOMAIN answer THEN StrV(answer[key]) ELSE NoneV))

\* str(x.get(name + str(j + 1))): the text typed, or the text of None
Lookup(answer, name, j) ==
    LET key == AnswerKey(name, j + 1)
    IN  StrV(PyStr(IF key \in DOMAIN answer THEN StrV(answer[key]) ELSE NoneV))

\* One pass of a merge loop: row label j takes its answers, column by
\* column.  cols is a sequence of <<column name, input name>>.
RECURSIVE SetRow(_, _, _, _)
SetRow(df, answer, j, cols) ==
    IF cols = <<>> THEN df
    ELSE SetRow(AtSet(df, IntV(j), cols[1][1], Lookup(answer, cols[1][2], j)),
                answer, j, Tail(cols))

\* for j in range(0, len(df)): ...   (the range is fixed on entry)
RECURSIVE MergeRows(_, _, _, _, _)
MergeRows(df, answer, cols, j, n) ==
    IF j >= n THEN df
    ELSE MergeRows(SetRow(df, answer, j, cols), answer, cols, j + 1, n)

HdrMergeCols == << <<<<"TrueHeader">>, <<"TrueHdr">>>>,
                   <<<<"Comments">>, <<"Comments">>>> >>

TabMergeCols == << <<<<"TrueStartDate">>, <<"TrueStartDate">>>>,
                   <<<<"TrueEndDate">>, <<"TrueEndDate">>>>,
                   <<<<"TrueEmpName">>, <<"TrueEmpName">>>>,
                   <<<<"TruePosHeld">>, <<"TruePosHeld">>>>,
                   <<<<"TrueResLeave">>, <<"TrueResLeave">>>>,
                   <<<<"ChangeComments">>, <<"Change", SPACE, "Reason">>>> >>

\* MergeCell with the answerContent of the first entry of humanAnswers
MergeCellFirstAnswer(df, cols) ==
    LET answers == ValueOf(json_output).humanAnswers
        first   == IF answers = <<>> THEN x
                   ELSE Bound([k |-> "dict", t |-> <<>>, n |-> 1])
        answer  == answers[1]
    IN  [x   |-> first,
         err |-> IF ~IsBound(json_output) THEN "NameError"
                 ELSE IF answers = <<>> /\ DfLen(df) > 0 THEN "AttributeError"
                 ELSE "",
         df  |-> IF answers = <<>> THEN WhereNotNull(df)
                 ELSE WhereNotNull(MergeRows(df, answer, cols, 0, DfLen(df)))]

\* A merge cell on frame df.  x is left as the last answerContent, or as
\* it was when humanAnswers is empty; an x that still holds the number
\* of the activation loop has no get.
MergeCell(df, cols) ==
    LET answers == ValueOf(json_output).humanAnswers
        last    == IF answers = <<>> THEN x
                   ELSE Bound([k |-> "dict", t |-> <<>>, n |-> Len(answers)])
        answer  == answers[Len(answers)]
    IN  [x   |-> last,
         err |-> IF ~IsBound(json_output) THEN "NameError"
                 ELSE IF answers = <<>> /\ DfLen(df) > 0 THEN "AttributeError"
                 ELSE "",
         df  |-> IF answers = <<>> THEN WhereNotNull(df)
                 ELSE WhereNotNull(MergeRows(df, answer, cols, 0, DfLen(df)))]

MergeForm ==
    /\ pc = "merge_form"
    /\ IF ~IsBound(json_output)
       THEN /\ Raise("NameError")
            /\ UNCHANGED <<x, df_form>>
       ELSE LET m == MergeCell(ValueOf(df_form), HdrMergeCols)
            IN  /\ x' = m.x
                /\ IF m.err = ""
                   THEN /\ df_form' = Bound(m.df)
                        /\ Goto("merge_tab")
                   ELSE /\ df_form' = df_form
                        /\ Raise(m.err)
    /\ UNCHANGED <<df_tab, df_doc, flowStatus, sawActive>>
    /\ UNCHANGED <<docVars, taskVars, loopVars, dbVars>>

MergeTab ==
    /\ pc = "merge_tab"
    /\ LET m == MergeCell(ValueOf(df_tab), TabMergeCols)
       IN  /\ x' = m.x
           /\ IF m.err = ""
              THEN /\ df_tab' = Bound(m.df)
                   /\ Goto("join_doc")
              ELSE /\ df_tab' = df_tab
                   /\ Raise(m.err)
    /\ UNCHANGED <<df_form, df_doc, flowStatus, sawActive>>
    /\ UNCHANGED <<docVars, taskVars, loopVars, dbVars>>

\* ------------------------------------------------------------------------
\* df_doc = df_form.join(df_tab, how='outer'): the rows of both frames
\* matched on their index labels, the labels in ascending order.  The
\* frames that reach the join carry integer labels.
\* ------------------------------------------------------------------------
RECURSIVE SortSet(_)
SortSet(S) ==
    IF S = {} THEN <<>>
    ELSE LET m == CHOOSE a \in S : \A b \in S : a <= b
         IN  <<m>> \o SortSet(S \ {m})

\* positions of label l in an index, in order
RECURSIVE PositionsOf(_, _, _)
PositionsOf(ix, l, from) ==
    IF from > Len(ix) THEN <<>>
    ELSE (IF ix[from].n = l THEN <<from>> ELSE <<>>)
         \o PositionsOf(ix, l, from + 1)

\* the matches for label l: <<label, left position, right position>>,
\* position 0 where the frame has no row of that label
Matches(l, lp, rp) ==
    IF lp = <<>> THEN [j \in 1..Len(rp) |-> <<l, 0, rp[j]>>]
    ELSE IF rp = <<>> THEN [i \in 1..Len(lp) |-> <<l, lp[i], 0>>]
    ELSE [q \in 1..(Len(lp) * Len(rp)) |->
             <<l, lp[((q - 1) \div Len(rp)) + 1], rp[((q - 1) % Len(rp)) + 1]>>]

RECURSIVE AllMatches(_, _, _)
AllMatches(labels, lix, rix) ==
    IF labels = <<>> THEN <<>>
    ELSE Matches(labels[1], PositionsOf(lix, labels[1], 1),
                 PositionsOf(rix, labels[1], 1))
         \o AllMatches(Tail(labels), lix, rix)

\* the rows a frame gives to the matches: its row, or a row of NaN
Side(df, ms, side) ==
    LET w      == Len(df.columns)
        holes  == \E q \in 1..Len(ms) : ms[q][side] = 0
        rws    == IF holes THEN Upcast(df.rows, w) ELSE df.rows
    IN  [q \in 1..Len(ms) |->
            IF ms[q][side] = 0 THEN [c \in 1..w |-> NaN] ELSE rws[ms[q][side]]]

OuterJoin(left, right) ==
    LET labels == SortSet({left.index[i].n : i \in 1..Len(left.index)}
                          \cup {right.index[i].n : i \in 1..Len(right.index)})
        ms     == AllMatches(labels, left.index, right.index)
        lrows  == Side(left, ms, 2)
        rrows  == Side(right, ms, 3)
    IN  DataFrame([q \in 1..Len(ms) |-> IntV(ms[q][1])],
                  left.columns \o right.columns,
                  [q \in 1..Len(ms) |-> lrows[q] \o rrows[q]])

JoinDoc ==
    /\ pc = "join_doc"
    /\ df_doc' = Bound(WhereNotNull(OuterJoin(ValueOf(df_form), ValueOf(df_tab))))
    /\ Goto("create_table")
    /\ UNCHANGED <<df_form, df_tab>>
    /\ UNCHANGED <<docVars, flowVars, taskVars, loopVars, dbVars>>

\* ------------------------------------------------------------------------
\* Step 5: the DynamoDB table.
\* ------------------------------------------------------------------------
\* The table resource that create_table returns, held by the variable
\* table from here on (written as a one-cell grid, as table's other
\* values are grids).
TableResource == << << <<"dynamodb.Table">> >> >>

EmptyTable == [l \in {} |-> <<>>]

\* "emp_hist-"+str(uuid.uuid4()): a random name; two draws may, however
\* improbably, give the same one
TableNames == {"emp_hist-a", "emp_hist-b"}

\* create_table answers ResourceInUseException for a name that exists
\* (variant that accepts any name)
NameTakenNever(acct, name) == FALSE

NameTaken(acct, name) == name \in DOMAIN acct

\* the items of the table that the resource in table stands for
ddbTable ==
    IF table = Bound(TableResource) THEN Bound(account[ValueOf(tablename)])
    ELSE Unbound

\* tablename = "emp_hist-"+str(uuid.uuid4());
\* table = dynamodb.create_table(TableName=tablename,
\* KeySchema=[line_nr HASH], ...); wait until the table exists
CreateTable ==
    /\ pc = "create_table"
    /\ \E name \in TableNames :
          /\ tablename' = Bound(name)
          /\ IF NameTaken(account, name)
             THEN /\ Raise("ResourceInUseException")
                  /\ UNCHANGED <<table, account>>
             ELSE /\ table' = Bound(TableResource)
                  /\ account' = [n \in DOMAIN account \cup {name} |->
                                    IF n = name THEN EmptyTable ELSE account[n]]
                  /\ Goto("put_item")
    /\ UNCHANGED <<analysis, response, page, form_csv, tab_csv>>
    /\ UNCHANGED <<run, earlier, puts, putPos>>
    /\ UNCHANGED <<frames, flowVars, taskVars, loopVars>>

\* attribute name -> column read for it
ItemColumnsOf ==
    [orig_hdr                |-> FormHeader,
     true_hdr                |-> <<"TrueHeader">>,
     comments                |-> <<"Comments">>,
     start_date              |-> StartDate,
     end_date                |-> EndDate,
     emp_name                |-> EmpName,
     position_held           |-> PosHeld,
     reason_for_leaving      |-> ResLeave,
     true_start_date         |-> <<"TrueStartDate">>,
     true_end_date           |-> <<"TrueEndDate">>,
     true_emp_name           |-> <<"TrueEmpName">>,
     true_position_held      |-> <<"TruePosHeld">>,
     true_reason_for_leaving |-> <<"TrueResLeave">>,
     change_comments         |-> <<"ChangeComments">>]

\* Item={'line_nr': idx, 'orig_hdr': str(row['FormHeader']), ...}
Item(df, p) ==
    [line_nr |-> df.index[p].n,
     attrs   |-> [a \in DOMAIN ItemColumnsOf |->
                     StrV(PyStr(df.rows[p][ColPos(df, ItemColumnsOf[a])]))]]

\* for idx, row in df_doc.iterrows(): table.put_item(Item=...)
PutItem ==
    /\ pc = "put_item"
    /\ LET df == ValueOf(df_doc)
       IN  IF putPos >= DfLen(df)
           THEN /\ Goto("get_item")
                /\ UNCHANGED dbVars
           ELSE IF \E a \in DOMAIN ItemColumnsOf : ~HasCol(df, ItemColumnsOf[a])
           THEN /\ Raise("KeyError")
                /\ UNCHANGED dbVars
           ELSE LET it == Item(df, putPos + 1)
                    tb == ValueOf(ddbTable)
                IN  /\ account' = [account EXCEPT ![ValueOf(tablename)] =
                                      [l \in DOMAIN tb \cup {it.line_nr} |->
                                          IF l = it.line_nr THEN it.attrs
                                          ELSE tb[l]]]
                    /\ puts' = Append(puts, it.line_nr)
                    /\ UNCHANGED <<tablename, run, earlier>>
                    /\ putPos' = putPos + 1
                    /\ Goto("put_item")
    /\ UNCHANGED <<docVars, frames, flowVars, taskVars, loopVars>>

\* response = table.get_item(Key={'line_nr': 2}); item = response['Item']
GetItem ==
    /\ pc = "get_item"
    /\ response' = Bound([op |-> "get_item", pages |-> <<>>])
    /\ IF 2 \in DOMAIN ValueOf(ddbTable)
       THEN Goto("done")
       ELSE Raise("KeyError")
    /\ UNCHANGED <<analysis, page, table, form_csv, tab_csv>>
    /\ UNCHANGED <<frames, flowVars, taskVars, loopVars, dbVars>>

\* ------------------------------------------------------------------------
\* A call to a service may fail; the exception is not caught and stops
\* the run at that cell.
\* ------------------------------------------------------------------------
ServiceCells ==
    {"analyze_document", "upload_image", "create_task_ui",
     "create_flow_definition", "flow_describe", "start_human_loop",
     "check_status_1", "workteam_portal", "check_status_2",
     "create_table", "get_item"}

CallsService ==
    \/ pc \in ServiceCells
    \/ pc = "fetch_output" /\ ValueOf(completed_human_loops) # <<>>
    \/ pc = "put_item" /\ putPos < DfLen(ValueOf(df_doc))

ServiceFailure ==
    /\ CallsService
    /\ Raise("ClientError")
    /\ UNCHANGED <<docVars, frames, flowVars, taskVars, loopVars, dbVars>>

Next ==
    \/ AnalyzeDocument
    \/ Traverse
    \/ WriteFormCsv
    \/ WriteTabCsv
    \/ UploadImage
    \/ LoadForm
    \/ LoadTab
    \/ CreateTaskUi
    \/ CreateFlowDefinition
    \/ FlowDefinitionSettles
    \/ EnterFlowWait
    \/ FlowDescribe
    \/ FlowSleep
    \/ BuildItemList
    \/ BuildHdrList
    \/ BuildIpContent
    \/ StartHumanLoop
    \/ HumanLoopEnds
    \/ CheckStatus1
    \/ WorkteamPortal
    \/ CheckStatus2
    \/ FetchOutput
    \/ MergeForm
    \/ MergeTab
    \/ JoinDoc
    \/ CreateTable
    \/ PutItem
    \/ GetItem
    \/ ServiceFailure

Spec == Init /\ [][Next]_vars

\* ------------------------------------------------------------------------
\* Properties of the completion wait and of the dispatch.
\* ------------------------------------------------------------------------
\* the humanAnswers of the fetched output
Answers == ValueOf(json_output).humanAnswers
LastAnswer == Answers[Len(Answers)]
Merged(df, col) == IsBound(df) /\ HasCol(ValueOf(df), col)

\* C1: a run whose status queries are used up without one of them
\* reporting Completed ends with a TimeoutError, and has fetched no
\* answer, merged nothing, created no table and written no item.
C1_TimeoutAfterBudget ==
    (/\ pc \in {"aborted", "done"}
     /\ hlQueries = StatusQueries
     /\ ValueOf(completed_human_loops) = <<>>)
    => /\ err = "TimeoutError"
       /\ ~IsBound(json_output)
       /\ ~Merged(df_form, <<"TrueHeader">>)
       /\ ~IsBound(ddbTable)
       /\ puts = <<>>

\* C2: a status query that returns another status than Completed while
\* queries are left is followed by a sleep (and then by the next query).
C2_SleepBeforeRetry ==
    [][(/\ hlQueries' = hlQueries + 1
        /\ hlStatus # "Completed"
        /\ hlQueries' < StatusQueries
        /\ pc' # "aborted")
       => pc' \in SleepCells]_vars

\* C3: start_human_loop is called only after a describe_flow_definition
\* of the run returned Active, and a review task is never submitted
\* without that.
C3_StartOnlyAfterActive ==
    /\ startCalls > 0 => sawActive
    /\ IsBound(taskInput) => sawActive

\* ------------------------------------------------------------------------
\* Properties of the merge.
\* ------------------------------------------------------------------------
\* The cell of row p (a position, from 1) in column col.
CellAt(df, p, col) == df.rows[p][ColPos(df, col)]

\* Row p of df holds, in each correctable column, the answer's text when
\* the answer has the row's key, and the null marker when it has not.
TextOrNull(df, cols, p) ==
    \A c \in 1..Len(cols) :
        LET key == AnswerKey(cols[c][2], p)
        IN  IF key \in DOMAIN LastAnswer
            THEN CellAt(df, p, cols[c][1]) = StrV(LastAnswer[key])
            ELSE CellAt(df, p, cols[c][1]) = NoneV

\* C4: the merge raises no lookup error, and after it each correctable
\* field of each row holds the answer's text, or the null marker (not a
\* text) when the answer lacks the row's key.
C4_MergeTotality ==
    /\ errCell \in {"merge_form", "merge_tab"} => err # "KeyError"
    /\ Merged(df_form, <<"TrueHeader">>) =>
          \A p \in 1..DfLen(ValueOf(df_form)) :
              TextOrNull(ValueOf(df_form), HdrMergeCols, p)
    /\ (/\ Merged(df_tab, <<"TrueStartDate">>)
        /\ ValueOf(df_tab).index = RangeIndex(DfLen(ValueOf(df_tab)))) =>
          \A p \in 1..DfLen(ValueOf(df_tab)) :
              TextOrNull(ValueOf(df_tab), TabMergeCols, p)

\* Row p of df holds the answer's value under each of the row's keys
\* that the answer has.
AnswerOnRow(df, cols, p) ==
    \A c \in 1..Len(cols) :
        LET key == AnswerKey(cols[c][2], p)
        IN  key \in DOMAIN LastAnswer =>
               CellAt(df, p, cols[c][1]) = StrV(LastAnswer[key])

\* C5: after the merge the row at position j (from 0) of either table
\* holds, in each correctable field F, the answer's value under F
\* followed by j+1, whatever the row's content, and the tables have the
\* rows they had: no correction sits on another row.
C5_PositionalLookup ==
    /\ Merged(df_form, <<"TrueHeader">>) =>
          /\ DfLen(ValueOf(df_form)) = Len(ValueOf(hdr_list))
          /\ \A p \in 1..Len(ValueOf(hdr_list)) :
                AnswerOnRow(ValueOf(df_form), HdrMergeCols, p)
    /\ Merged(df_tab, <<"TrueStartDate">>) =>
          /\ DfLen(ValueOf(df_tab)) = Len(ValueOf(item_list))
          /\ \A p \in 1..Len(ValueOf(item_list)) :
                AnswerOnRow(ValueOf(df_tab), TabMergeCols, p)

\* ------------------------------------------------------------------------
\* Properties of the projection.
\* ------------------------------------------------------------------------
\* the field pairs of a response, in detection order
RECURSIVE AllFields(_)
AllFields(pages) ==
    IF pages = <<>> THEN <<>> ELSE pages[1].fields \o AllFields(Tail(pages))

\* the text of a cell of a frame
TextOf(val) == PyStr(val)

\* C6: the header table has one record for each field pair of the
\* response, over all its pages, the k-th record for the k-th pair.
C6_RecordPerFieldPair ==
    (IsBound(df_form) /\ AllFields(analysis) # <<>>) =>
        /\ DfLen(ValueOf(df_form)) = Len(AllFields(analysis))
        /\ \A k \in 1..Len(AllFields(analysis)) :
              <<TextOf(CellAt(ValueOf(df_form), k, FormHeader))>>
                 = FormRow(AllFields(analysis)[k])

Kept(cells) ==
    LET full == SelectSeq(cells, LAMBDA c : c # <<>>)
    IN  [i \in 1..Len(full) |-> rstrip(full[i])]

IsBlankRow(cells) == \A c \in 1..Len(cells) : cells[c] = <<>>

\* table still holds the table of the traversal and its csv is written
TableProjected ==
    /\ IsBound(table)
    /\ IsBound(tab_csv)
    /\ ValueOf(table) # TableResource

\* C8, as stated: the line-item table has one record for each row of
\* the selected table, in row order, holding that row's non-empty cell
\* texts without trailing whitespace.
C8_RecordPerTableRow ==
    (TableProjected /\ pc = "create_task_ui") =>
        /\ DfLen(ValueOf(df_tab)) = Len(ValueOf(table))
        /\ \A r \in 1..DfLen(ValueOf(df_tab)) :
              LET kept == Kept(ValueOf(table)[r])
              IN  \A c \in 1..Len(kept) :
                     TextOf(ValueOf(df_tab).rows[r][c]) = kept[c]

\* C8, amended: the table csv has one row for each row of the selected
\* table, in row order, holding that row's non-empty cell texts without
\* trailing whitespace (an empty line for a row of empty cells); of
\* these rows the loaded line-item table takes the first non-blank one
\* as its column names and skips the blank ones.
C8_CsvRowPerTableRow ==
    TableProjected =>
        /\ Len(ValueOf(tab_csv)) = Len(ValueOf(table))
        /\ \A r \in 1..Len(ValueOf(table)) :
              IF IsBlankRow(ValueOf(table)[r])
              THEN ValueOf(tab_csv)[r] = <<>>
              ELSE ParseLine(ValueOf(tab_csv)[r]) = Kept(ValueOf(table)[r])
        /\ pc = "create_task_ui" =>
              DfLen(ValueOf(df_tab)) =
                 Len(SelectSeq(ValueOf(table), LAMBDA r : ~IsBlankRow(r))) - 1

C8_Witness ==
    /\ pc = "create_task_ui"
    /\ ValueOf(table) = <<HdrFull, RowGap, RowBlank>>
    /\ Len(ValueOf(tab_csv)) = 3
    /\ DfLen(ValueOf(df_tab)) = 1

\* the rows of a loaded frame as texts, the column names first if the
\* file had them
Reloaded(df, hasHeader) ==
    (IF hasHeader THEN <<df.columns>> ELSE <<>>)
    \o [r \in 1..DfLen(df) |-> [c \in 1..Len(df.columns) |-> TextOf(df.rows[r][c])]]

\* loaded holds the rows written, text for text
SameRows(loaded, written) ==
    /\ Len(loaded) = Len(written)
    /\ \A r \in 1..Len(written) :
          /\ Len(written[r]) <= Len(loaded[r])
          /\ \A c \in 1..Len(written[r]) : loaded[r][c] = written[r][c]

\* C9: the header rows and the line-item rows come back from the csv
\* files as many as were written, in order, each text as written.
C9_RoundTrip ==
    (TableProjected /\ pc = "create_task_ui") =>
        /\ SameRows(Reloaded(ValueOf(df_form), FALSE),
                    [k \in 1..Len(ValueOf(page).fields) |->
                        FormRow(ValueOf(page).fields[k])])
        /\ SameRows(Reloaded(ValueOf(df_tab), TRUE),
                    [r \in 1..Len(ValueOf(table)) |-> Kept(ValueOf(table)[r])])

\* ------------------------------------------------------------------------
\* Properties of the persistence.
\* ------------------------------------------------------------------------
\* C10: the p-th put_item of a run (p from 0) carries line_nr = p, the
\* finished loop has made one put_item for each row of df_doc, and the
\* table holds as many items as were put: none was overwritten.
C10_LineNrIsPosition ==
    /\ \A p \in 1..Len(puts) : puts[p] = p - 1
    /\ pc \in {"get_item", "done"} => Len(puts) = DfLen(ValueOf(df_doc))
    /\ IsBound(ddbTable) => Cardinality(DOMAIN ValueOf(ddbTable)) = Len(puts)

\* the puts whose item is still in the table: no later put had its key
Standing == {p \in 1..Len(puts) : \A q \in (p + 1)..Len(puts) : puts[q] # puts[p]}

\* C11: every attribute of a written item other than its key is a
\* string or null, and is null where the row of df_doc it was written
\* from holds null (a position without header or without line item, a
\* correction left out); a text of the row is written as that text.
C11_StringOrNull ==
    IsBound(ddbTable) =>
        \A p \in Standing :
            \A a \in DOMAIN ItemColumnsOf :
                LET cell   == CellAt(ValueOf(df_doc), p, ItemColumnsOf[a])
                    stored == ValueOf(ddbTable)[puts[p]][a]
                IN  /\ stored.k \in {"str", "none"}
                    /\ cell = NoneV => stored = NoneV
                    /\ cell.k = "str" => stored = cell

\* ------------------------------------------------------------------------
\* Properties of the run as a whole.
\* ------------------------------------------------------------------------
\* the cells in the order of the notebook
Cells ==
    <<"analyze_document", "traverse", "write_form_csv", "write_tab_csv",
      "upload_image", "load_form", "load_tab", "create_task_ui",
      "create_flow_definition", "flow_wait", "flow_describe", "flow_sleep",
      "build_item_list", "build_hdr_list", "build_ip_content",
      "start_human_loop", "check_status_1", "workteam_portal",
      "check_status_2", "fetch_output", "merge_form", "merge_tab",
      "join_doc", "create_table", "put_item", "get_item", "done">>

CellNr(c) == CHOOSE i \in 1..Len(Cells) : Cells[i] = c

\* the cell the run is at, or stopped at
Reached == IF pc = "aborted" THEN errCell ELSE pc

\* C12: a stage that fails stops the run there: no cell after the
\* activation wait is reached unless the wait saw Active, and no cell
\* after the completion wait is reached unless it saw Completed; a
\* stopped run carries the exception that stopped it.
C12_FailFast ==
    /\ CellNr(Reached) > CellNr("flow_sleep") => sawActive
    /\ CellNr(Reached) > CellNr("check_status_2") =>
          ValueOf(completed_human_loops) # <<>>
    /\ pc = "aborted" => err # ""

\* the table the traversal of the response selects, if any
Selected == LastTable(Unbound, analysis)

\* a row of the table has fewer non-empty cells than the heading row
HasShortRow(t) ==
    \E r \in 2..Len(t) : Len(Kept(t[r])) < Len(Kept(t[1]))

\* C13: for a response without table, or whose selected table has a
\* row with fewer non-empty cells than columns, the run stops within
\* the projection: neither frame is loaded and no task is submitted.
C13_ProjectionError ==
    (/\ pc \notin {"analyze_document", "traverse"}
     /\ (~IsBound(Selected) \/ HasShortRow(ValueOf(Selected))))
    => /\ CellNr(Reached) <= CellNr("load_tab")
       /\ ~IsBound(df_form)
       /\ ~IsBound(df_tab)
       /\ startCalls = 0

\* ------------------------------------------------------------------------
\* The notebook run a second time on the same document, in a fresh
\* kernel: no name is bound, the tables of the account are as the first
\* run left them.
\* ------------------------------------------------------------------------
Restart ==
    /\ pc \in {"done", "aborted"}
    /\ run = "first"
    /\ run' = "second"
    /\ earlier' = IF IsBound(ddbTable)
                  THEN Bound([name  |-> ValueOf(tablename),
                              items |-> ValueOf(ddbTable)])
                  ELSE Unbound
    /\ pc' = "analyze_document"
    /\ err' = ""
    /\ errCell' = ""
    /\ response' = Unbound
    /\ page' = Unbound
    /\ table' = Unbound
    /\ form_csv' = Unbound
    /\ tab_csv' = Unbound
    /\ df_form' = Unbound
    /\ df_tab' = Unbound
    /\ df_doc' = Unbound
    /\ flowStatus' = "None"
    /\ x' = Unbound
    /\ sawActive' = FALSE
    /\ item_list' = Unbound
    /\ hdr_list' = Unbound
    /\ ip_content' = Unbound
    /\ startCalls' = 0
    /\ taskInput' = Unbound
    /\ hlStatus' = "None"
    /\ resp' = Unbound
    /\ hlQueries' = 0
    /\ completed_human_loops' = Unbound
    /\ json_output' = Unbound
    /\ tablename' = Unbound
    /\ puts' = <<>>
    /\ putPos' = 0
    /\ UNCHANGED <<analysis, account>>

\* the documents the two runs are followed on
RerunAnalyses ==
    {<<Page(<<TableStd>>, FieldsStd)>>,
     <<Page(<<<<HdrFull, RowDigits>>, TableStd>>, FieldsStd)>>}

InitTwoRuns == Init /\ analysis \in RerunAnalyses

NextTwoRuns == Next \/ Restart

TwoRuns == InitTwoRuns /\ [][NextTwoRuns]_vars

\* C14: the table the first run left is still there, with its items as
\* they were, whatever the second run does, and a table the second run
\* creates has another name.
C14_OwnTables ==
    (run = "second" /\ IsBound(earlier)) =>
        /\ ValueOf(earlier).name \in DOMAIN account
        /\ account[ValueOf(earlier).name] = ValueOf(earlier).items
        /\ IsBound(ddbTable) => ValueOf(tablename) # ValueOf(earlier).name

C14_Witness ==
    /\ run = "second"
    /\ IsBound(earlier)
    /\ DOMAIN ValueOf(earlier).items # {}
    /\ IsBound(ddbTable)
    /\ puts # <<>>
    /\ DOMAIN account = TableNames

\* ------------------------------------------------------------------------
\* Properties of the two waits.
\* ------------------------------------------------------------------------
\* C15: the activation loop makes its queries with x = 0 .. 59, so at
\* most 60; after a query that returns Active the run leaves the loop
\* at once, after any other query it sleeps; after a sleep comes the
\* next query with x one higher, or the end of the loop when x was 59;
\* and a query is only made on entering the loop or after a sleep.  As
\* x rises with every round and stays below 60, the loop ends whatever
\* statuses the service returns.
C15_BoundedWait ==
    [][/\ (pc = "flow_describe" /\ pc' \notin {pc, "aborted"}) =>
             /\ ValueOf(x).n < FlowAttempts
             /\ IF flowStatus = "Active"
                THEN pc' = "build_item_list" /\ sawActive'
                ELSE pc' = "flow_sleep"
       /\ (pc = "flow_sleep" /\ pc' # pc) =>
             IF ValueOf(x).n + 1 < FlowAttempts
             THEN pc' = "flow_describe" /\ ValueOf(x').n = ValueOf(x).n + 1
             ELSE pc' = "build_item_list"
       /\ (pc' = "flow_describe" /\ pc # pc') =>
             pc \in {"flow_wait", "flow_sleep"}]_vars

C15_Witness ==
    /\ pc = "build_item_list"
    /\ ~sawActive
    /\ ValueOf(x).n = FlowAttempts - 1

\* the output object of the human loop has been fetched from S3
Fetched == IsBound(response) /\ ValueOf(response).op = "get_object"

\* C16: the output object is fetched and json_output is bound only when
\* the status query before the fetch returned Completed; once the fetch
\* cell has run for a loop seen as InProgress, Stopped or Failed there is
\* no fetched object and json_output is unbound in the merge cells.
C16_OutputOnlyIfCompleted ==
    /\ (Fetched \/ IsBound(json_output)) =>
          /\ IsBound(resp)
          /\ ValueOf(resp).HumanLoopStatus = "Completed"
          /\ IsBound(json_output)
    /\ (CellNr(Reached) > CellNr("fetch_output")
        /\ ValueOf(resp).HumanLoopStatus # "Completed") =>
          ~Fetched /\ ~IsBound(json_output)

C16_Witness ==
    /\ pc = "merge_tab"
    /\ Fetched
    /\ IsBound(json_output)
    /\ hlQueries = StatusQueries

\* ------------------------------------------------------------------------
\* The worker UI and the merge cells.
\* ------------------------------------------------------------------------
\* A reviewer who types into every input rendered the name of that input.
FilledIn(blocks) ==
    Answer("A", UNION {blocks.Header[i] : i \in DOMAIN blocks.Header}
                \cup UNION {blocks.Pairs[i] : i \in DOMAIN blocks.Pairs})

\* The texts the merge loop reads for its row j from that answer.
ReadForRow(answer, cols, j) ==
    {Lookup(answer, cols[c][2], j) : c \in DOMAIN cols}

TypedInto(block) == {StrV(<<"A">> \o key) : key \in block}

\* C17: for the task input submitted, with h Header entries and n Pairs
\* entries, the template renders h header blocks and n line-item blocks,
\* the merge loops run over j = 0 .. h-1 and j = 0 .. n-1, and what the
\* merge cells look up for row j are exactly the inputs of block j+1.
C17_TemplateAndMergerAgree ==
    IsBound(taskInput) =>
        LET input  == ValueOf(taskInput)
            blocks == Rendered(input)
            answer == FilledIn(blocks)
        IN  /\ Len(blocks.Header) = Len(input.Header)
            /\ Len(blocks.Pairs) = Len(input.Pairs)
            /\ pc = "merge_form" => DfLen(ValueOf(df_form)) = Len(input.Header)
            /\ pc = "merge_tab" => DfLen(ValueOf(df_tab)) = Len(input.Pairs)
            /\ \A j \in 0..(Len(input.Header) - 1) :
                  ReadForRow(answer, HdrMergeCols, j)
                      = TypedInto(blocks.Header[j + 1])
            /\ \A j \in 0..(Len(input.Pairs) - 1) :
                  ReadForRow(answer, TabMergeCols, j)
                      = TypedInto(blocks.Pairs[j + 1])

C17_Witness ==
    /\ pc = "join_doc"
    /\ IsBound(json_output)
    /\ Len(ValueOf(taskInput).Header) >= 1
    /\ Len(ValueOf(taskInput).Pairs) >= 2

\* The task has been submitted and the frames are still as they were
\* when the lists were built (the merge cells have not run).
Dispatched ==
    /\ IsBound(taskInput)
    /\ CellNr(Reached) <= CellNr("merge_form")

\* C18: the one task submitted has in Header one entry per row of df_form
\* and in Pairs one entry per row of df_tab; entry x (from 0) is labelled
\* x and holds the FormHeader text, or the five line-item values, of the
\* row at position x; image1 is the address of the uploaded image.
C18_PayloadByValue ==
    Dispatched =>
        LET input == ValueOf(taskInput)
            form  == ValueOf(df_form)
            tab   == ValueOf(df_tab)
        IN  /\ startCalls = 1
            /\ input.image1 = "s3_img_url"
            /\ Len(input.Header) = DfLen(form)
            /\ Len(input.Pairs) = DfLen(tab)
            /\ \A p \in 1..DfLen(form) :
                  /\ input.Header[p].hdrrow = DecText(p - 1)
                  /\ input.Header[p].orighdr = CellAt(form, p, FormHeader)
            /\ \A p \in 1..DfLen(tab) :
                  /\ input.Pairs[p].row = DecText(p - 1)
                  /\ input.Pairs[p].startdate = CellAt(tab, p, StartDate)
                  /\ input.Pairs[p].enddate = CellAt(tab, p, EndDate)
                  /\ input.Pairs[p].empname = CellAt(tab, p, EmpName)
                  /\ input.Pairs[p].posheld = CellAt(tab, p, PosHeld)
                  /\ input.Pairs[p].resleave = CellAt(tab, p, ResLeave)

C18_Witness ==
    /\ Dispatched
    /\ Len(ValueOf(taskInput).Header) >= 1
    /\ Len(ValueOf(taskInput).Pairs) = 2
    /\ [ValueOf(taskInput).Pairs[1] EXCEPT !.row = <<>>]
          # [ValueOf(taskInput).Pairs[2] EXCEPT !.row = <<>>]

\* ------------------------------------------------------------------------
\* The table behind the line items.
\* ------------------------------------------------------------------------
\* The tables of the response in the order the traversal meets them.
RECURSIVE TablesInOrder(_)
TablesInOrder(pages) ==
    IF pages = <<>> THEN <<>>
    ELSE pages[1].tables \o TablesInOrder(Tail(pages))

LastMet == TablesInOrder(analysis)[Len(TablesInOrder(analysis))]

\* C19: when the response has tables, the table csv is written from the
\* last table the traversal met and from no other, and df_tab, until the
\* merge cell changes it, is the load of that csv: the line items come
\* from the rows of that one table only.
C19_LastTableOnly ==
    (TablesInOrder(analysis) # <<>> /\ IsBound(tab_csv)) =>
        /\ table \in {Bound(LastMet), Bound(TableResource)}
        /\ tab_csv = Bound(TabLines(LastMet))
        /\ (IsBound(df_tab) /\ CellNr(Reached) <= CellNr("merge_tab")) =>
              /\ read_csv(TabLines(LastMet), TRUE).ok
              /\ df_tab = Bound(read_csv(TabLines(LastMet), TRUE).df)

C19_Witness ==
    /\ Len(TablesInOrder(analysis)) >= 2
    /\ TablesInOrder(analysis)[1] # LastMet
    /\ IsBound(df_tab)
    /\ DfLen(ValueOf(df_tab)) >= 1
    /\ pc = "create_task_ui"

\* ------------------------------------------------------------------------
\* The joined frame.
\* ------------------------------------------------------------------------
\* Row p of doc carries row p of df in the columns of df, or null in
\* each of them when df has no row p.
CarriesRow(doc, df, p) ==
    \A c \in 1..Len(df.columns) :
        CellAt(doc, p, df.columns[c]) =
            IF p <= DfLen(df) THEN df.rows[p][c] ELSE NoneV

\* C20: df_doc has max(h, n) rows for the h rows of df_form and the n
\* rows of df_tab, labelled 0 .. max(h, n)-1, and its row at each
\* position carries the row of df_form and the row of df_tab at that
\* position unchanged, with null in the columns of a frame that has no
\* row there.
C20_JoinShape ==
    IsBound(df_doc) =>
        LET doc  == ValueOf(df_doc)
            form == ValueOf(df_form)
            tab  == ValueOf(df_tab)
            m    == Max(DfLen(form), DfLen(tab))
        IN  /\ DfLen(doc) = m
            /\ doc.index = RangeIndex(m)
            /\ \A p \in 1..m : CarriesRow(doc, form, p) /\ CarriesRow(doc, tab, p)

\* ------------------------------------------------------------------------
\* The answer the merge cells use.
\* ------------------------------------------------------------------------
\* Each correctable cell of df is untouched (null), or is the text that
\* answer gives for the input of the row's label: the text typed, or the
\* text of None when the answer has no such input.
TakenFrom(df, cols, answer) ==
    \A i \in 1..DfLen(df) : \A c \in 1..Len(cols) :
        LET key  == AnswerKey(cols[c][2], df.index[i].n + 1)
            cell == CellAt(df, i, cols[c][1])
        IN  \/ cell = NoneV
            \/ cell = StrV(IF key \in DOMAIN answer THEN answer[key]
                           ELSE PyStr(NoneV))

\* C21: the corrections in df_form and df_tab come from the last entry
\* of humanAnswers and from no earlier entry (x is left bound to that
\* last entry); with an empty humanAnswers the header merge cell fails
\* on the number x left by the activation loop, and neither frame gets
\* a correction column.
C21_LastAnswerOnly ==
    IsBound(json_output) =>
        /\ Merged(df_form, <<"TrueHeader">>) =>
              /\ Answers # <<>>
              /\ ValueOf(x).k = "dict" /\ ValueOf(x).n = Len(Answers)
              /\ TakenFrom(ValueOf(df_form), HdrMergeCols, LastAnswer)
        /\ Merged(df_tab, <<"TrueStartDate">>) =>
              /\ Answers # <<>>
              /\ ValueOf(x).k = "dict" /\ ValueOf(x).n = Len(Answers)
              /\ TakenFrom(ValueOf(df_tab), TabMergeCols, LastAnswer)
        /\ (Answers = <<>> /\ pc # "merge_form") =>
              /\ pc = "aborted"
              /\ errCell = "merge_form"
              /\ err = "AttributeError"
              /\ ValueOf(x).k = "int"

C21_Witness ==
    /\ pc = "join_doc"
    /\ Len(Answers) = 2
    /\ AnswerKey(<<"TrueHdr">>, 1) \in DOMAIN LastAnswer
    /\ AnswerKey(<<"TrueHdr">>, 1) \in DOMAIN Answers[1]
    /\ Answers[1][AnswerKey(<<"TrueHdr">>, 1)]
          # LastAnswer[AnswerKey(<<"TrueHdr">>, 1)]
    /\ CellAt(ValueOf(df_form), 1, <<"TrueHeader">>)
          = StrV(LastAnswer[AnswerKey(<<"TrueHdr">>, 1)])
    /\ Merged(df_tab, <<"TrueStartDate">>)

\* ------------------------------------------------------------------------
\* The heading row of the table.
\* ------------------------------------------------------------------------
\* the rows of the selected table that have a non-empty cell
Filled == SelectSeq(LastMet, LAMBDA r : ~IsBlankRow(r))

\* Row p of df holds the texts of cells in the columns it took from
\* the file, wherever the load kept the cell as a text; w is the number
\* of those columns, and cells beyond them on the left are row labels.
HoldsTexts(df, p, w, cells) ==
    LET lead == Max(Len(cells) - w, 0)
    IN  \A c \in 1..w :
            (c + lead <= Len(cells) /\ df.rows[p][c].k = "str")
                => df.rows[p][c].t = cells[c + lead]

\* C22: of the rows of the selected table with a non-empty cell the
\* first gives df_tab its column names and each later one gives one row:
\* df_tab, as loaded and as merged, and the Pairs list sent for review
\* have one entry less than there are such rows, and the row at position
\* 0 holds the cell texts of the second such row.
C22_HeaderRowConsumed ==
    (TablesInOrder(analysis) # <<>> /\ IsBound(df_tab)) =>
        LET tab   == ValueOf(df_tab)
            names == Kept(Filled[1])
        IN  /\ SubSeq(tab.columns, 1, Len(names)) = names
            /\ DfLen(tab) = Len(Filled) - 1
            /\ IsBound(taskInput) =>
                  Len(ValueOf(taskInput).Pairs) = Len(Filled) - 1
            /\ Len(Filled) >= 2 =>
                  HoldsTexts(tab, 1, Len(names), Kept(Filled[2]))

=============================================================================
